---- MODULE Spec2Model ----
(***************************************************************************)
(* Model of the NFC payment authorization code: authService.ts (sign-in,   *)
(* PIN verification, failed-attempt counter), transactionService.ts (risk  *)
(* scoring, account and daily-limit checks, persistence), nfcService.ts    *)
(* (device registry) and the NFCPayment.handlePayment flow, over the       *)
(* tables of the SQL migration.                                            *)
(*                                                                         *)
(* Amounts are in thousandths of a currency unit (Unit = 1.00), times in   *)
(* milliseconds.  A SQL NULL in a numeric column is the value Unset.       *)
(* console is the set of messages the handlers wrote with console.error.   *)
(* pins, scan and provider are the verifyPin calls in flight, the promise  *)
(* of readNFCTag and the state of AuthProvider.                            *)
(***************************************************************************)
EXTENDS Integers, Sequences, FiniteSets, Bags, TLC

VARIABLES users, nfc_devices, transactions, security_logs, now, session,
          devices, last, calls, checked, console, pins, scan, provider

vars == <<users, nfc_devices, transactions, security_logs, now, session,
          devices, last, calls, checked, console, pins, scan, provider>>

-----------------------------------------------------------------------------
(* Bounds of the model *)

AuthMaxLogs == 9
AuthMaxTxns == 1
AuthMaxAttempts == 6
PayMaxTxns == 4
PayMaxTicks == 6
RaceMaxTxns == 2
RaceMaxTicks == 1
DevMaxLogs == 8
DevMaxTxns == 2
DupMaxTxns == 3
DupMaxTicks == 1
FaultMaxTxns == 2
AcctMaxLogs == 11
AcctMaxTxns == 2
AcctMaxAttempts == 5

ScoreMaxTxns == 4
ScoreMaxTicks == 6
OwnMaxLogs == 6
PinMaxLogs == 7
PinMaxAttempts == 5
ScanMaxEvents == 3
LoadMaxLogs == 3
(* Program constants *)

Unit == 1000
Unset == 0 - 1
LockThreshold == 5
DefaultDailyLimit == 1000 * Unit
LargeAmount == 500 * Unit
VelocityCount == 3
VelocityMinutes == 5
DailyRiskTotal == 1000 * Unit
DuplicateEpsilon == 10
DuplicateWindowMs == 60000
DeclineThreshold == 80
PendingThreshold == 50
HighSeverityRisk == 70
MinuteMs == 60000
TimeoutSeconds == 10
DayMs == 86400000

(* Input domains *)

Users == {"u1", "u2"}
Pins == {"1234", "0000"}
DeviceUids == {"tagA", "tagB"}
NoTag == "none"
Merchants == {"M1", "M2"}
NoMerchant == "null"
TapMs == 1
Amounts == {400 * Unit, 500 * Unit, 600 * Unit}
TickMinutes == {1, 4}
StartOfRun == DayMs - 5 * MinuteMs
Instants == {0, 1, 5, 6}
SignupPin(u) == IF u = "u1" THEN "1234" ELSE "0000"
InitLimits == {Unset, 0, 1000 * Unit, 2000 * Unit}
PayAmounts == {400 * Unit, 600 * Unit}
DupAmounts == {10 * Unit, 10 * Unit + 5, 10 * Unit + 10}
SigUsers == {"u1", "u1:7"}
SigAmounts == {7, 70}
SigMerchants == {"M1", "70:M1"}
SigInstants == {5, 6}
EncMerchants == {"M1", "M1:00"}
EncTimestamps == {"00:05", "05"}
PayLimits == {0, 1000 * Unit, 2000 * Unit}
InitStatuses == {"active", "suspended"}
AcctAmounts == {0 - 50 * Unit, 0, 600 * Unit}
DeviceIds == {1, 2, 3}

-----------------------------------------------------------------------------
(* lib/crypto *)

hashPin(pin) == <<"sha256", pin>>

(* A digest is the pair of the algorithm and the digested text: SHA-256 is  *)
(* taken to be injective on its input.                                     *)
generateTransactionSignatureUnbound(userId, amount, merchantId, timestamp) ==
    <<"sha256", userId \o ":" \o ToString(amount) \o ":" \o timestamp>>

generateTransactionSignature(userId, amount, merchantId, timestamp) ==
    LET data == userId \o ":" \o ToString(amount) \o ":" \o merchantId
                   \o ":" \o timestamp
    IN <<"sha256", data>>

verifyTransactionSignature(signature, userId, amount, merchantId, timestamp) ==
    LET expectedSignature ==
            generateTransactionSignature(userId, amount, merchantId, timestamp)
    IN signature = expectedSignature

(* Date.prototype.toISOString: the text of an instant *)
toISOString(t) == ToString(t)

-----------------------------------------------------------------------------
(* The store: a record of the four tables.  security_logs is the bag of    *)
(* rows that logSecurityEvent sends to the audit log.                      *)

Db == [users |-> users, nfc_devices |-> nfc_devices,
       transactions |-> transactions, security_logs |-> security_logs]

logSecurityEventReplacing(db, userId, eventType, severity) ==
    [db EXCEPT !.security_logs =
        SetToBag({[user_id |-> userId, event_type |-> eventType,
                   severity |-> severity]})]

logSecurityEvent(db, userId, eventType, severity) ==
    [db EXCEPT !.security_logs =
        @ (+) SetToBag({[user_id |-> userId, event_type |-> eventType,
                         severity |-> severity]})]

JsOr(value, default) == IF value = Unset \/ value = 0 THEN default ELSE value

(* Row-level security of the migration: the commands for which a table has *)
(* a policy for the signed-in owner of a row.  Row-level security is       *)
(* enabled on every table, so a command without a policy is denied.        *)
Policies ==
    [users |-> {"SELECT", "UPDATE", "INSERT"},
     nfc_devices |-> {"SELECT", "INSERT", "UPDATE", "DELETE"},
     transactions |-> {"SELECT", "INSERT"},
     security_logs |-> {"SELECT"}]

Permitted(table, command) == command \in Policies[table]

(* The audit log: the rows of security_logs that the store keeps.  The     *)
(* insert of logSecurityEvent is subject to the policies and its result is *)
(* not looked at.                                                          *)
AuditLog ==
    IF Permitted("security_logs", "INSERT") THEN security_logs ELSE EmptyBag

-----------------------------------------------------------------------------
(* authService.ts *)

LockStatusNever(attempts) == "active"

LockStatusLate(attempts) ==
    IF attempts > LockThreshold THEN "locked" ELSE "active"

LockStatus(attempts) ==
    IF attempts >= LockThreshold THEN "locked" ELSE "active"

incrementFailedAuthAttempts(db, userId, t) ==
    LET attempts == (IF userId \in DOMAIN db.users
                     THEN JsOr(db.users[userId].failed_auth_attempts, 0)
                     ELSE 0) + 1
        updated == IF userId \in DOMAIN db.users
                   THEN [db EXCEPT !.users[userId] =
                            [@ EXCEPT !.failed_auth_attempts = attempts,
                                      !.last_failed_auth = t,
                                      !.status = LockStatus(attempts)]]
                   ELSE db
    IN IF attempts >= LockThreshold
       THEN logSecurityEvent(updated, userId, "account_locked", "critical")
       ELSE updated

resetFailedAuthAttempts(db, userId) ==
    IF userId \in DOMAIN db.users
    THEN [db EXCEPT !.users[userId] =
             [@ EXCEPT !.failed_auth_attempts = 0,
                       !.last_failed_auth = Unset]]
    ELSE db

verifyPinAccepting(db, userId, pin, t) ==
    IF userId \notin DOMAIN db.users
    THEN [db |-> logSecurityEvent(db, userId, "pin_verification_failed",
                                  "medium"),
          isValid |-> FALSE]
    ELSE IF db.users[userId].pin_hash # hashPin(pin)
         THEN [db |-> logSecurityEvent(
                          incrementFailedAuthAttempts(db, userId, t),
                          userId, "invalid_pin", "high"),
               isValid |-> TRUE]
         ELSE [db |-> db, isValid |-> TRUE]

verifyPinUncounted(db, userId, pin, t) ==
    IF userId \notin DOMAIN db.users
    THEN [db |-> logSecurityEvent(db, userId, "pin_verification_failed",
                                  "medium"),
          isValid |-> FALSE]
    ELSE IF db.users[userId].pin_hash # hashPin(pin)
         THEN [db |-> logSecurityEvent(db, userId, "invalid_pin", "high"),
               isValid |-> FALSE]
         ELSE [db |-> db, isValid |-> TRUE]

verifyPin(db, userId, pin, t) ==
    LET pinHash == hashPin(pin) IN
    IF userId \notin DOMAIN db.users
    THEN [db |-> logSecurityEvent(db, userId, "pin_verification_failed",
                                  "medium"),
          isValid |-> FALSE]
    ELSE LET isValid == db.users[userId].pin_hash = pinHash IN
         IF ~isValid
         THEN [db |-> logSecurityEvent(
                          incrementFailedAuthAttempts(db, userId, t),
                          userId, "invalid_pin", "high"),
               isValid |-> FALSE]
         ELSE [db |-> db, isValid |-> TRUE]

(* dataUser is data.user.id of the signInWithPassword response, "null"     *)
(* when the response carries no user.                                      *)
signIn(db, dataUser, authError, t) ==
    IF authError
    THEN IF dataUser # "null"
         THEN incrementFailedAuthAttempts(db, dataUser, t)
         ELSE db
    ELSE logSecurityEvent(resetFailedAuthAttempts(db, dataUser),
                          dataUser, "user_signin", "low")

signOut(db, user) == logSecurityEvent(db, user, "user_signout", "low")

-----------------------------------------------------------------------------
(* nfcService.ts *)

FindDeviceByUid(db, deviceUid) ==
    {i \in 1..Len(db.nfc_devices) : db.nfc_devices[i].device_uid = deviceUid}

registerNFCDeviceInactive(db, userId, deviceUid, deviceName) ==
    IF FindDeviceByUid(db, deviceUid) # {} \/ userId \notin DOMAIN db.users
    THEN [db |-> db, error |-> "db error", id |-> 0]
    ELSE LET id == Len(db.nfc_devices) + 1
             row == [id |-> id, user_id |-> userId, device_uid |-> deviceUid,
                     device_name |-> deviceName, is_active |-> FALSE,
                     last_used |-> Unset]
             inserted == [db EXCEPT !.nfc_devices = Append(@, row)]
         IN [db |-> logSecurityEvent(inserted, userId,
                                     "nfc_device_registered", "low"),
             error |-> "null", id |-> id]

registerNFCDeviceShared(db, userId, deviceUid, deviceName) ==
    IF userId \notin DOMAIN db.users
    THEN [db |-> db, error |-> "db error", id |-> 0]
    ELSE LET id == Len(db.nfc_devices) + 1
             row == [id |-> id, user_id |-> userId, device_uid |-> deviceUid,
                     device_name |-> deviceName, is_active |-> TRUE,
                     last_used |-> Unset]
             inserted == [db EXCEPT !.nfc_devices = Append(@, row)]
         IN [db |-> logSecurityEvent(inserted, userId,
                                     "nfc_device_registered", "low"),
             error |-> "null", id |-> id]

registerNFCDevice(db, userId, deviceUid, deviceName) ==
    IF FindDeviceByUid(db, deviceUid) # {} \/ userId \notin DOMAIN db.users
    THEN [db |-> db, error |-> "db error", id |-> 0]
    ELSE LET id == Len(db.nfc_devices) + 1
             row == [id |-> id, user_id |-> userId, device_uid |-> deviceUid,
                     device_name |-> deviceName, is_active |-> TRUE,
                     last_used |-> Unset]
             inserted == [db EXCEPT !.nfc_devices = Append(@, row)]
         IN [db |-> logSecurityEvent(inserted, userId,
                                     "nfc_device_registered", "low"),
             error |-> "null", id |-> id]

getUserDevices(db, userId) ==
    LET mine == SelectSeq(db.nfc_devices, LAMBDA d : d.user_id = userId)
    IN [i \in 1..Len(mine) |->
           [id |-> mine[i].id, deviceUid |-> mine[i].device_uid]]

updateDeviceLastUsedNever(db, deviceId, t) == db

updateDeviceLastUsed(db, deviceId, t) ==
    [db EXCEPT !.nfc_devices =
        [i \in 1..Len(@) |->
            IF @[i].id = deviceId THEN [@[i] EXCEPT !.last_used = t]
                                  ELSE @[i]]]

deactivateDevice(db, deviceId, userId) ==
    LET updated ==
          [db EXCEPT !.nfc_devices =
              [i \in 1..Len(@) |->
                  IF @[i].id = deviceId /\ @[i].user_id = userId
                  THEN [@[i] EXCEPT !.is_active = FALSE]
                  ELSE @[i]]]
    IN logSecurityEvent(updated, userId, "nfc_device_deactivated", "medium")

-----------------------------------------------------------------------------
(* transactionService.ts *)

RECURSIVE SumAmounts(_)
SumAmounts(rows) ==
    IF rows = <<>> THEN 0 ELSE Head(rows).amount + SumAmounts(Tail(rows))

StartOfDay(t) == t - (t % DayMs)

Abs(x) == IF x < 0 THEN 0 - x ELSE x

Min(a, b) == IF a < b THEN a ELSE b

getDailyTransactionTotal(db, userId, t) ==
    SumAmounts(SelectSeq(db.transactions,
        LAMBDA r : /\ r.user_id = userId
                   /\ r.status = "approved"
                   /\ r.created_at >= StartOfDay(t)))

getRecentTransactions(db, userId, minutes, t) ==
    SelectSeq(db.transactions,
        LAMBDA r : /\ r.user_id = userId
                   /\ r.created_at >= t - minutes * MinuteMs)

riskScoreFromApprovedDuplicates(recentTransactions, dailyTotal, request, t) ==
    LET amountPoints == IF request.amount > LargeAmount THEN 30 ELSE 0
        velocityPoints ==
            IF Len(recentTransactions) >= VelocityCount THEN 40 ELSE 0
        dailyPoints ==
            IF dailyTotal + request.amount > DailyRiskTotal THEN 50 ELSE 0
        isDuplicate ==
            \E i \in 1..Len(recentTransactions) :
                /\ recentTransactions[i].status = "approved"
                /\ recentTransactions[i].merchant_id = request.merchantId
                /\ Abs(recentTransactions[i].amount - request.amount)
                      < DuplicateEpsilon
                /\ t - recentTransactions[i].created_at < DuplicateWindowMs
        duplicatePoints == IF isDuplicate THEN 70 ELSE 0
    IN Min(amountPoints + velocityPoints + dailyPoints + duplicatePoints, 100)

(* The score of a request from the two reads calculateRiskScore makes; t   *)
(* is Date.now() when the duplicate rule is evaluated.                     *)
riskScoreFrom(recentTransactions, dailyTotal, request, t) ==
    LET amountPoints == IF request.amount > LargeAmount THEN 30 ELSE 0
        velocityPoints ==
            IF Len(recentTransactions) >= VelocityCount THEN 40 ELSE 0
        dailyPoints ==
            IF dailyTotal + request.amount > DailyRiskTotal THEN 50 ELSE 0
        isDuplicate ==
            \E i \in 1..Len(recentTransactions) :
                /\ recentTransactions[i].merchant_id = request.merchantId
                /\ Abs(recentTransactions[i].amount - request.amount)
                      < DuplicateEpsilon
                /\ t - recentTransactions[i].created_at < DuplicateWindowMs
        duplicatePoints == IF isDuplicate THEN 70 ELSE 0
    IN Min(amountPoints + velocityPoints + dailyPoints + duplicatePoints, 100)

calculateRiskScoreStrictVelocity(db, request, t) ==
    LET recentTransactions ==
            getRecentTransactions(db, request.userId, VelocityMinutes, t)
        amountPoints == IF request.amount > LargeAmount THEN 30 ELSE 0
        velocityPoints ==
            IF Len(recentTransactions) > VelocityCount THEN 40 ELSE 0
        dailyTotal == getDailyTransactionTotal(db, request.userId, t)
        dailyPoints ==
            IF dailyTotal + request.amount > DailyRiskTotal THEN 50 ELSE 0
        isDuplicate ==
            \E i \in 1..Len(recentTransactions) :
                /\ recentTransactions[i].merchant_id = request.merchantId
                /\ Abs(recentTransactions[i].amount - request.amount)
                      < DuplicateEpsilon
                /\ t - recentTransactions[i].created_at < DuplicateWindowMs
        duplicatePoints == IF isDuplicate THEN 70 ELSE 0
    IN Min(amountPoints + velocityPoints + dailyPoints + duplicatePoints, 100)

calculateRiskScore(db, request, t) ==
    riskScoreFrom(
        getRecentTransactions(db, request.userId, VelocityMinutes, t),
        getDailyTransactionTotal(db, request.userId, t), request, t)

checkAccountStatusExistingOnly(db, userId) ==
    IF userId \in DOMAIN db.users /\ db.users[userId].status # "active"
    THEN "Account is not active"
    ELSE "null"

determineTransactionStatusLenient(riskScore) ==
    IF riskScore >= 90 THEN "declined"
    ELSE IF riskScore >= PendingThreshold THEN "pending"
    ELSE "approved"

determineTransactionStatusOffByOne(riskScore) ==
    IF riskScore > DeclineThreshold THEN "declined"
    ELSE IF riskScore >= PendingThreshold THEN "pending"
    ELSE "approved"

determineTransactionStatus(riskScore) ==
    IF riskScore >= DeclineThreshold THEN "declined"
    ELSE IF riskScore >= PendingThreshold THEN "pending"
    ELSE "approved"

checkAccountStatus(db, userId) ==
    IF userId \notin DOMAIN db.users \/ db.users[userId].status # "active"
    THEN "Account is not active"
    ELSE "null"

checkDailyLimitSkipped(db, userId, amount, t) == "null"

checkDailyLimit(db, userId, amount, t) ==
    LET dailyLimit == IF userId \in DOMAIN db.users
                      THEN JsOr(db.users[userId].daily_limit,
                                DefaultDailyLimit)
                      ELSE DefaultDailyLimit
        dailyTotal == getDailyTransactionTotal(db, userId, t)
    IN IF dailyTotal + amount > dailyLimit
       THEN "Daily transaction limit exceeded"
       ELSE "null"

TransactionInsertOkUnchecked(db, row) ==
    /\ row.user_id \in DOMAIN db.users
    /\ row.device_id \in 1..Len(db.nfc_devices)
    /\ row.status \in {"pending", "approved", "declined", "failed"}
    /\ row.risk_score >= 0 /\ row.risk_score <= 100

(* Constraints of the transactions table *)
TransactionInsertOk(db, row) ==
    /\ row.user_id \in DOMAIN db.users
    /\ row.device_id \in 1..Len(db.nfc_devices)
    /\ row.amount > 0
    /\ row.status \in {"pending", "approved", "declined", "failed"}
    /\ row.risk_score >= 0 /\ row.risk_score <= 100

Failed(db, error, riskScore) ==
    [db |-> db, error |-> error, risk |-> riskScore, txn |-> 0]

(* processTransaction run to completion at one instant t: no other call    *)
(* and no clock tick falls between its store calls.  Begin .. Touch below  *)
(* are the same code with its awaits as separate steps.                    *)
processTransaction(db, request, t) ==
    LET signature == generateTransactionSignature(
                         request.userId, request.amount, request.merchantId,
                         toISOString(t))
        riskScore == calculateRiskScore(db, request, t)
        accountError == checkAccountStatus(db, request.userId)
        limitError == checkDailyLimit(db, request.userId, request.amount, t)
        status == determineTransactionStatus(riskScore)
        row == [id |-> Len(db.transactions) + 1,
                user_id |-> request.userId,
                device_id |-> request.deviceId,
                amount |-> request.amount,
                merchant_id |-> request.merchantId,
                status |-> status,
                risk_score |-> riskScore,
                signature |-> signature,
                decline_reason |-> IF status = "declined"
                                   THEN "High risk score" ELSE "null",
                created_at |-> t]
    IN IF accountError # "null" THEN Failed(db, accountError, riskScore)
       ELSE IF limitError # "null" THEN Failed(db, limitError, riskScore)
       ELSE IF ~TransactionInsertOk(db, row)
            THEN Failed(db, "db error", riskScore)
       ELSE LET inserted == [db EXCEPT !.transactions = Append(@, row)]
                logged == logSecurityEvent(inserted, request.userId,
                              "transaction_processed",
                              IF riskScore > HighSeverityRisk
                              THEN "high" ELSE "low")
                used == IF status = "approved"
                        THEN updateDeviceLastUsed(logged, request.deviceId, t)
                        ELSE logged
            IN [db |-> used, error |-> "null", risk |-> riskScore,
                txn |-> row.id]

-----------------------------------------------------------------------------
(* NFCPayment.handlePayment (Dashboard.tsx) *)

FindCached(cache, deviceUid) ==
    {i \in 1..Len(cache) : cache[i].deviceUid = deviceUid}

PaymentResult(db, cache, error, risk, txn, pinValid, merchant, t) ==
    [db |-> db, cache |-> cache, error |-> error, risk |-> risk,
     txn |-> txn, pinValid |-> pinValid, merchant |-> merchant, t |-> t]

handlePayment(db, cache, userId, pin, tag, amount, t) ==
    LET pin1 == verifyPin(db, userId, pin, t) IN
    IF ~pin1.isValid
    THEN PaymentResult(pin1.db, cache, "Invalid PIN", Unset, 0, FALSE,
                       NoMerchant, t)
    ELSE IF tag = NoTag
    THEN PaymentResult(pin1.db, cache, "NFC read failed", Unset, 0, TRUE,
                       NoMerchant, t)
    ELSE
      LET tapped == t + TapMs
          found == FindCached(cache, tag)
          reg == IF found = {}
                 THEN registerNFCDevice(pin1.db, userId, tag, Len(cache) + 1)
                 ELSE [db |-> pin1.db, error |-> "null",
                       id |-> cache[CHOOSE i \in found :
                                      \A j \in found : i <= j].id]
          cache1 == IF found = {} /\ reg.error = "null"
                    THEN Append(cache, [id |-> reg.id, deviceUid |-> tag])
                    ELSE cache
          merchantId == "MERCH_" \o ToString(tapped)
      IN IF reg.error # "null"
         THEN PaymentResult(reg.db, cache1, reg.error, Unset, 0, TRUE,
                            NoMerchant, tapped)
         ELSE LET res == processTransaction(reg.db,
                             [userId |-> userId, deviceId |-> reg.id,
                              amount |-> amount, merchantId |-> merchantId],
                             tapped)
              IN PaymentResult(res.db, cache1, res.error, res.risk, res.txn,
                               TRUE, merchantId, tapped)

-----------------------------------------------------------------------------
(* processTransaction call by call: what one call holds between its awaited *)
(* store calls.                                                             *)

Procs == {"p1", "p2"}

NoRequest ==
    [userId |-> "null", deviceId |-> 0, amount |-> 0, merchantId |-> NoMerchant]

IdleCall ==
    [pc |-> "idle", request |-> NoRequest, signature |-> <<"sha256", "">>,
     recentTransactions |-> <<>>, riskScore |-> Unset, dailyLimit |-> Unset,
     dailyTotal |-> Unset, txn |-> 0, failed |-> {}]

insertTransactionSerialized(db, call, t) ==
    LET status == determineTransactionStatus(call.riskScore)
        row == [id |-> Len(db.transactions) + 1,
                user_id |-> call.request.userId,
                device_id |-> call.request.deviceId,
                amount |-> call.request.amount,
                merchant_id |-> call.request.merchantId,
                status |-> status,
                risk_score |-> call.riskScore,
                signature |-> call.signature,
                decline_reason |-> IF status = "declined"
                                   THEN "High risk score" ELSE "null",
                created_at |-> t]
    IN IF \/ ~TransactionInsertOk(db, row)
          \/ checkDailyLimit(db, call.request.userId, call.request.amount, t)
                # "null"
       THEN [db |-> db, error |-> "db error", txn |-> 0]
       ELSE [db |-> [db EXCEPT !.transactions = Append(@, row)],
             error |-> "null", txn |-> row.id]

(* The insert of processTransaction; created_at is the store's now() *)
insertTransaction(db, call, t) ==
    LET status == determineTransactionStatus(call.riskScore)
        row == [id |-> Len(db.transactions) + 1,
                user_id |-> call.request.userId,
                device_id |-> call.request.deviceId,
                amount |-> call.request.amount,
                merchant_id |-> call.request.merchantId,
                status |-> status,
                risk_score |-> call.riskScore,
                signature |-> call.signature,
                decline_reason |-> IF status = "declined"
                                   THEN "High risk score" ELSE "null",
                created_at |-> t]
    IN IF ~TransactionInsertOk(db, row)
       THEN [db |-> db, error |-> "db error", txn |-> 0]
       ELSE [db |-> [db EXCEPT !.transactions = Append(@, row)],
             error |-> "null", txn |-> row.id]

(* verifyPin call by call: what one call holds between its awaited store   *)
(* calls                                                                   *)
IdlePin == [pc |-> "idle", userId |-> "null", pin |-> "", attempts |-> 0]

(* readNFCTag: the promise it returns, the seconds since the timer was     *)
(* armed, whether the timer has fired and the events delivered so far      *)
NoScan ==
    [pc |-> "idle", state |-> "pending", value |-> "null", elapsed |-> 0,
     fired |-> FALSE, events |-> 0, settled |-> 0]

(* AuthProvider: its user and loading state, the loadUser calls in flight  *)
(* and the number of loads started so far                                  *)
LoadIds == {1, 2}

IdleLoad == [pc |-> "idle", result |-> "null", order |-> 0]

NoProvider ==
    [user |-> "null", loading |-> TRUE, started |-> 0,
     loads |-> [i \in LoadIds |-> IdleLoad]]

(* The last signature verification: the signed fields, the claimed fields  *)
(* and the verdict.                                                        *)
NoCheck ==
    [signature |-> <<"sha256", "">>, signed |-> <<>>, claimed |-> <<>>,
     valid |-> FALSE]

-----------------------------------------------------------------------------
(* State machine *)

UserRow(pin, limit, status) ==
    [pin_hash |-> hashPin(pin), daily_limit |-> limit, status |-> status,
     failed_auth_attempts |-> 0, last_failed_auth |-> Unset]

Outcome(op, user, amount, merchant, error, risk, txn, pinValid) ==
    [op |-> op, user |-> user, amount |-> amount, merchant |-> merchant,
     error |-> error, risk |-> risk, txn |-> txn, pinValid |-> pinValid]

Commit(db) ==
    /\ users' = db.users
    /\ nfc_devices' = db.nfc_devices
    /\ transactions' = db.transactions
    /\ security_logs' = db.security_logs

Init ==
    /\ \E limit \in InitLimits, status \in InitStatuses,
          rows \in {{"u1"}, Users} :
          users = [u \in rows |->
                      IF u = "u1" THEN UserRow(SignupPin(u), limit, status)
                      ELSE UserRow(SignupPin(u), DefaultDailyLimit, "active")]
    /\ nfc_devices = <<>>
    /\ transactions = <<>>
    /\ security_logs = EmptyBag
    /\ now = StartOfRun
    /\ session = {}
    /\ devices = [u \in Users |-> <<>>]
    /\ last = Outcome("init", "null", 0, NoMerchant, "null", Unset, 0, FALSE)
    /\ calls = [p \in Procs |-> IdleCall]
    /\ checked = NoCheck
    /\ console = {}
    /\ pins = [p \in Procs |-> IdlePin]
    /\ scan = NoScan
    /\ provider = NoProvider

Tick(minutes) ==
    /\ now' = now + minutes * MinuteMs
    /\ last' = Outcome("tick", "null", 0, NoMerchant, "null", Unset, 0, FALSE)
    /\ UNCHANGED <<users, nfc_devices, transactions, security_logs, session,
                   devices, calls, checked, console,
                   pins, scan, provider>>

SignIn(u) ==
    /\ u \notin session
    /\ Commit(signIn(Db, u, FALSE, now))
    /\ session' = session \cup {u}
    /\ last' = Outcome("signIn", u, 0, NoMerchant, "null", Unset, 0, FALSE)
    /\ UNCHANGED <<now, devices, calls, checked, console,
                   pins, scan, provider>>

SignInFail(u) ==
    /\ u \notin session
    /\ Commit(signIn(Db, "null", TRUE, now))
    /\ last' = Outcome("signInFail", u, 0, NoMerchant,
                       "Invalid login credentials", Unset, 0, FALSE)
    /\ UNCHANGED <<now, session, devices, calls, checked, console,
                   pins, scan, provider>>

SignOut(u) ==
    /\ u \in session
    /\ Commit(signOut(Db, u))
    /\ session' = session \ {u}
    /\ devices' = [devices EXCEPT ![u] = <<>>]
    /\ last' = Outcome("signOut", u, 0, NoMerchant, "null", Unset, 0, FALSE)
    /\ UNCHANGED <<now, calls, checked, console,
                   pins, scan, provider>>

LoadDevices(u) ==
    /\ u \in session /\ u \in DOMAIN users
    /\ devices' = [devices EXCEPT ![u] = getUserDevices(Db, u)]
    /\ last' = Outcome("loadDevices", u, 0, NoMerchant, "null", Unset, 0,
                       FALSE)
    /\ UNCHANGED <<users, nfc_devices, transactions, security_logs, now,
                   session, calls, checked, console,
                   pins, scan, provider>>

VerifyPin(u, pin) ==
    LET res == verifyPin(Db, u, pin, now) IN
    /\ Commit(res.db)
    /\ last' = Outcome("verifyPin", u, 0, NoMerchant, "null", Unset, 0,
                       res.isValid)
    /\ UNCHANGED <<now, session, devices, calls, checked, console,
                   pins, scan, provider>>

HandlePayment(u, pin, tag, amount) ==
    LET res == handlePayment(Db, devices[u], u, pin, tag, amount, now) IN
    /\ u \in session /\ u \in DOMAIN users
    /\ Commit(res.db)
    /\ devices' = [devices EXCEPT ![u] = res.cache]
    /\ now' = res.t
    /\ last' = Outcome("handlePayment", u, amount, res.merchant, res.error,
                       res.risk, res.txn, res.pinValid)
    /\ UNCHANGED <<session, calls, checked, console,
                   pins, scan, provider>>

ProcessTransaction(u, deviceId, amount, merchantId) ==
    LET res == processTransaction(Db,
                   [userId |-> u, deviceId |-> deviceId, amount |-> amount,
                    merchantId |-> merchantId], now)
    IN
    /\ u \in session
    /\ Commit(res.db)
    /\ last' = Outcome("processTransaction", u, amount, merchantId, res.error,
                       res.risk, res.txn, TRUE)
    /\ UNCHANGED <<now, session, devices, calls, checked, console,
                   pins, scan, provider>>

DeactivateDevice(u, deviceId) ==
    /\ u \in session /\ u \in DOMAIN users
    /\ \E i \in 1..Len(devices[u]) : devices[u][i].id = deviceId
    /\ nfc_devices[deviceId].is_active
    /\ Commit(deactivateDevice(Db, deviceId, u))
    /\ devices' = [devices EXCEPT ![u] = getUserDevices(Db, u)]
    /\ last' = Outcome("deactivateDevice", u, 0, NoMerchant, "null", Unset, 0,
                       FALSE)
    /\ UNCHANGED <<now, session, calls, checked, console,
                   pins, scan, provider>>

(* A direct call of the exported registerNFCDevice *)
RegisterDevice(u, tag) ==
    LET reg == registerNFCDevice(Db, u, tag, Len(devices[u]) + 1) IN
    /\ u \in session
    /\ Commit(reg.db)
    /\ last' = Outcome("registerNFCDevice", u, 0, NoMerchant, reg.error,
                       Unset, 0, FALSE)
    /\ UNCHANGED <<now, session, devices, calls, checked, console,
                   pins, scan, provider>>

(* A direct call of the exported deactivateDevice, for any device id *)
DeactivateDeviceCall(u, deviceId) ==
    /\ u \in session
    /\ Commit(deactivateDevice(Db, deviceId, u))
    /\ last' = Outcome("deactivateDevice", u, 0, NoMerchant, "null", Unset, 0,
                       FALSE)
    /\ UNCHANGED <<now, session, devices, calls, checked, console,
                   pins, scan, provider>>

(* processTransaction as its awaited steps.  Each step is one store call   *)
(* of the code and reads the store as it is at that moment.                *)

Finish(p, error) ==
    /\ calls' = [calls EXCEPT ![p] = IdleCall]
    /\ last' = Outcome("processTransaction", calls[p].request.userId,
                       calls[p].request.amount, calls[p].request.merchantId,
                       error, calls[p].riskScore, calls[p].txn, TRUE)

Begin(p, u, deviceId, amount, merchantId) ==
    /\ u \in session
    /\ calls[p].pc = "idle"
    /\ calls' = [calls EXCEPT ![p] =
          [IdleCall EXCEPT
             !.pc = "recent",
             !.request = [userId |-> u, deviceId |-> deviceId,
                          amount |-> amount, merchantId |-> merchantId],
             !.signature = generateTransactionSignature(
                               u, amount, merchantId, toISOString(now))]]
    /\ UNCHANGED <<users, nfc_devices, transactions, security_logs, now,
                   session, devices, last, checked, console,
                   pins, scan, provider>>

ScoreRecent(p) ==
    /\ calls[p].pc = "recent"
    /\ calls' = [calls EXCEPT ![p] =
          [@ EXCEPT !.pc = "daily",
                    !.recentTransactions =
                        getRecentTransactions(Db, calls[p].request.userId,
                                              VelocityMinutes, now)]]
    /\ UNCHANGED <<users, nfc_devices, transactions, security_logs, now,
                   session, devices, last, checked, console,
                   pins, scan, provider>>

ScoreDaily(p) ==
    /\ calls[p].pc = "daily"
    /\ calls' = [calls EXCEPT ![p] =
          [@ EXCEPT !.pc = "account",
                    !.recentTransactions = <<>>,
                    !.riskScore =
                        riskScoreFrom(calls[p].recentTransactions,
                            getDailyTransactionTotal(
                                Db, calls[p].request.userId, now),
                            calls[p].request, now)]]
    /\ UNCHANGED <<users, nfc_devices, transactions, security_logs, now,
                   session, devices, last, checked, console,
                   pins, scan, provider>>

AccountCheck(p) ==
    LET accountError == checkAccountStatus(Db, calls[p].request.userId) IN
    /\ calls[p].pc = "account"
    /\ IF accountError # "null"
       THEN Finish(p, accountError)
       ELSE /\ calls' = [calls EXCEPT ![p].pc = "limit"]
            /\ UNCHANGED last
    /\ UNCHANGED <<users, nfc_devices, transactions, security_logs, now,
                   session, devices, checked, console,
                   pins, scan, provider>>

LimitRead(p) ==
    LET userId == calls[p].request.userId IN
    /\ calls[p].pc = "limit"
    /\ calls' = [calls EXCEPT ![p] =
          [@ EXCEPT !.pc = "total",
                    !.dailyLimit =
                        IF userId \in DOMAIN users
                        THEN JsOr(users[userId].daily_limit, DefaultDailyLimit)
                        ELSE DefaultDailyLimit]]
    /\ UNCHANGED <<users, nfc_devices, transactions, security_logs, now,
                   session, devices, last, checked, console,
                   pins, scan, provider>>

LimitTotal(p) ==
    LET dailyTotal ==
            getDailyTransactionTotal(Db, calls[p].request.userId, now)
    IN
    /\ calls[p].pc = "total"
    /\ IF dailyTotal + calls[p].request.amount > calls[p].dailyLimit
       THEN Finish(p, "Daily transaction limit exceeded")
       ELSE /\ calls' = [calls EXCEPT ![p] =
                  [@ EXCEPT !.pc = "insert", !.dailyTotal = dailyTotal]]
            /\ UNCHANGED last
    /\ UNCHANGED <<users, nfc_devices, transactions, security_logs, now,
                   session, devices, checked, console,
                   pins, scan, provider>>

Insert(p) ==
    LET res == insertTransaction(Db, calls[p], now) IN
    /\ calls[p].pc = "insert"
    /\ Commit(res.db)
    /\ IF res.error # "null"
       THEN Finish(p, res.error)
       ELSE /\ calls' = [calls EXCEPT ![p] =
                  [@ EXCEPT !.pc = "log", !.txn = res.txn]]
            /\ UNCHANGED last
    /\ UNCHANGED <<now, session, devices, checked, console,
                   pins, scan, provider>>

LogProcessed(p) ==
    LET c == calls[p] IN
    /\ c.pc = "log"
    /\ Commit(logSecurityEvent(Db, c.request.userId, "transaction_processed",
                               IF c.riskScore > HighSeverityRisk
                               THEN "high" ELSE "low"))
    /\ IF determineTransactionStatus(c.riskScore) = "approved"
       THEN /\ calls' = [calls EXCEPT ![p].pc = "touch"]
            /\ UNCHANGED last
       ELSE Finish(p, "null")
    /\ UNCHANGED <<now, session, devices, checked, console,
                   pins, scan, provider>>

Touch(p) ==
    /\ calls[p].pc = "touch"
    /\ Commit(updateDeviceLastUsed(Db, calls[p].request.deviceId, now))
    /\ Finish(p, "null")
    /\ UNCHANGED <<now, session, devices, checked, console,
                   pins, scan, provider>>

(* The same steps when the store call returns an error instead of data.    *)
(* failed collects the calls of the request that returned an error and     *)
(* did not end it.                                                         *)

ScoreRecentFails(p) ==
    /\ calls[p].pc = "recent"
    /\ calls' = [calls EXCEPT ![p] =
          [@ EXCEPT !.pc = "daily",
                    !.recentTransactions = <<>>,
                    !.failed = @ \cup {"recent"}]]
    /\ UNCHANGED <<users, nfc_devices, transactions, security_logs, now,
                   session, devices, last, checked, console,
                   pins, scan, provider>>

ScoreDailyFails(p) ==
    /\ calls[p].pc = "daily"
    /\ calls' = [calls EXCEPT ![p] =
          [@ EXCEPT !.pc = "account",
                    !.recentTransactions = <<>>,
                    !.riskScore =
                        riskScoreFrom(calls[p].recentTransactions, 0,
                                      calls[p].request, now),
                    !.failed = @ \cup {"daily"}]]
    /\ UNCHANGED <<users, nfc_devices, transactions, security_logs, now,
                   session, devices, last, checked, console,
                   pins, scan, provider>>

AccountCheckFails(p) ==
    /\ calls[p].pc = "account"
    /\ Finish(p, "store error")
    /\ UNCHANGED <<users, nfc_devices, transactions, security_logs, now,
                   session, devices, checked, console,
                   pins, scan, provider>>

LimitReadFails(p) ==
    /\ calls[p].pc = "limit"
    /\ calls' = [calls EXCEPT ![p] =
          [@ EXCEPT !.pc = "total",
                    !.dailyLimit = DefaultDailyLimit,
                    !.failed = @ \cup {"limit"}]]
    /\ UNCHANGED <<users, nfc_devices, transactions, security_logs, now,
                   session, devices, last, checked, console,
                   pins, scan, provider>>

LimitTotalFails(p) ==
    LET dailyTotal == 0 IN
    /\ calls[p].pc = "total"
    /\ IF dailyTotal + calls[p].request.amount > calls[p].dailyLimit
       THEN Finish(p, "Daily transaction limit exceeded")
       ELSE /\ calls' = [calls EXCEPT ![p] =
                  [@ EXCEPT !.pc = "insert", !.dailyTotal = dailyTotal,
                            !.failed = @ \cup {"total"}]]
            /\ UNCHANGED last
    /\ UNCHANGED <<users, nfc_devices, transactions, security_logs, now,
                   session, devices, checked, console,
                   pins, scan, provider>>

InsertFails(p) ==
    /\ calls[p].pc = "insert"
    /\ Finish(p, "store error")
    /\ UNCHANGED <<users, nfc_devices, transactions, security_logs, now,
                   session, devices, checked, console,
                   pins, scan, provider>>

LogProcessedFails(p) ==
    /\ calls[p].pc = "log"
    /\ IF determineTransactionStatus(calls[p].riskScore) = "approved"
       THEN /\ calls' = [calls EXCEPT ![p] =
                  [@ EXCEPT !.pc = "touch", !.failed = @ \cup {"log"}]]
            /\ UNCHANGED last
       ELSE Finish(p, "null")
    /\ UNCHANGED <<users, nfc_devices, transactions, security_logs, now,
                   session, devices, checked, console,
                   pins, scan, provider>>

TouchFails(p) ==
    /\ calls[p].pc = "touch"
    /\ Finish(p, "null")
    /\ UNCHANGED <<users, nfc_devices, transactions, security_logs, now,
                   session, devices, checked, console,
                   pins, scan, provider>>

(* NFCPayment.loadDevices when getUserDevices throws *)
LoadDevicesFails(u) ==
    /\ u \in session /\ u \in DOMAIN users
    /\ console' = console \cup {"Failed to load devices"}
    /\ last' = Outcome("loadDevices", u, 0, NoMerchant, "null", Unset, 0,
                       FALSE)
    /\ UNCHANGED <<users, nfc_devices, transactions, security_logs, now,
                   session, devices, calls, checked,
                   pins, scan, provider>>

(* verifyPin as its awaited steps: the read of the digest, the read and    *)
(* the write of incrementFailedAuthAttempts and the appends of the events. *)

PinReturn(p, isValid) ==
    /\ pins' = [pins EXCEPT ![p] = IdlePin]
    /\ last' = Outcome("verifyPin", pins[p].userId, 0, NoMerchant, "null",
                       Unset, 0, isValid)

PinBegin(p, u, pin) ==
    /\ pins[p].pc = "idle"
    /\ pins' = [pins EXCEPT ![p] =
          [IdlePin EXCEPT !.pc = "digest", !.userId = u, !.pin = pin]]
    /\ UNCHANGED <<users, nfc_devices, transactions, security_logs, now,
                   session, devices, last, calls, checked, console,
                   scan, provider>>

PinDigest(p) ==
    LET u == pins[p].userId IN
    /\ pins[p].pc = "digest"
    /\ IF u \notin DOMAIN users
       THEN /\ Commit(logSecurityEvent(Db, u, "pin_verification_failed",
                                       "medium"))
            /\ PinReturn(p, FALSE)
       ELSE /\ IF users[u].pin_hash = hashPin(pins[p].pin)
               THEN PinReturn(p, TRUE)
               ELSE /\ pins' = [pins EXCEPT ![p].pc = "read"]
                    /\ UNCHANGED last
            /\ UNCHANGED <<users, nfc_devices, transactions, security_logs>>
    /\ UNCHANGED <<now, session, devices, calls, checked, console,
                   scan, provider>>

PinIncrementRead(p) ==
    LET u == pins[p].userId IN
    /\ pins[p].pc = "read"
    /\ pins' = [pins EXCEPT ![p] =
          [@ EXCEPT !.pc = "write",
                    !.attempts =
                        (IF u \in DOMAIN users
                         THEN JsOr(users[u].failed_auth_attempts, 0)
                         ELSE 0) + 1]]
    /\ UNCHANGED <<users, nfc_devices, transactions, security_logs, now,
                   session, devices, last, calls, checked, console,
                   scan, provider>>

PinIncrementWrite(p) ==
    LET u == pins[p].userId
        attempts == pins[p].attempts
    IN
    /\ pins[p].pc = "write"
    /\ users' = IF u \in DOMAIN users
                THEN [users EXCEPT ![u] =
                         [@ EXCEPT !.failed_auth_attempts = attempts,
                                   !.last_failed_auth = now,
                                   !.status = LockStatus(attempts)]]
                ELSE users
    /\ pins' = [pins EXCEPT ![p].pc =
                   IF attempts >= LockThreshold THEN "locked" ELSE "invalid"]
    /\ UNCHANGED <<nfc_devices, transactions, security_logs, now,
                   session, devices, last, calls, checked, console,
                   scan, provider>>

PinLogLocked(p) ==
    /\ pins[p].pc = "locked"
    /\ Commit(logSecurityEvent(Db, pins[p].userId, "account_locked",
                               "critical"))
    /\ pins' = [pins EXCEPT ![p].pc = "invalid"]
    /\ UNCHANGED <<now, session, devices, last, calls, checked, console,
                   scan, provider>>

PinLogInvalid(p) ==
    /\ pins[p].pc = "invalid"
    /\ Commit(logSecurityEvent(Db, pins[p].userId, "invalid_pin", "high"))
    /\ PinReturn(p, FALSE)
    /\ UNCHANGED <<now, session, devices, calls, checked, console,
                   scan, provider>>

(* readNFCTag.  resolve and reject of a promise act only while it is       *)
(* pending; settled counts the times the promise changed state.            *)

settleAgain(s, state, value) ==
    [s EXCEPT !.state = state, !.value = value, !.settled = @ + 1]

settle(s, state, value) ==
    IF s.state = "pending"
    THEN [s EXCEPT !.state = state, !.value = value, !.settled = @ + 1]
    ELSE s

(* ndef.scan() resolved: the listeners are added and the timer is armed *)
ScanStart ==
    /\ scan.pc = "idle"
    /\ scan' = [scan EXCEPT !.pc = "listening"]
    /\ UNCHANGED <<users, nfc_devices, transactions, security_logs, now,
                   session, devices, last, calls, checked, console,
                   pins, provider>>

(* ndef.scan() rejected: readNFCTag throws before it makes the promise *)
ScanRefused ==
    /\ scan.pc = "idle"
    /\ scan' = [scan EXCEPT !.pc = "refused", !.state = "rejected",
                            !.value = "NFC scan failed", !.settled = 1]
    /\ UNCHANGED <<users, nfc_devices, transactions, security_logs, now,
                   session, devices, last, calls, checked, console,
                   pins, provider>>

(* A reading event *)
ScanReading(serialNumber) ==
    /\ scan.pc = "listening"
    /\ scan.events < ScanMaxEvents
    /\ scan' = [settle(scan, "fulfilled", serialNumber)
                   EXCEPT !.events = @ + 1]
    /\ UNCHANGED <<users, nfc_devices, transactions, security_logs, now,
                   session, devices, last, calls, checked, console,
                   pins, provider>>

(* An error event *)
ScanError ==
    /\ scan.pc = "listening"
    /\ scan.events < ScanMaxEvents
    /\ scan' = [settle(scan, "rejected", "Failed to read NFC tag")
                   EXCEPT !.events = @ + 1]
    /\ UNCHANGED <<users, nfc_devices, transactions, security_logs, now,
                   session, devices, last, calls, checked, console,
                   pins, provider>>

(* A second passes before the timer is due *)
ScanSecond ==
    /\ scan.pc = "listening"
    /\ scan.elapsed < TimeoutSeconds
    /\ scan' = [scan EXCEPT !.elapsed = @ + 1]
    /\ UNCHANGED <<users, nfc_devices, transactions, security_logs, now,
                   session, devices, last, calls, checked, console,
                   pins, provider>>

(* The callback of setTimeout runs *)
ScanTimeout ==
    /\ scan.pc = "listening"
    /\ scan.elapsed = TimeoutSeconds
    /\ ~scan.fired
    /\ scan' = [settle(scan, "rejected", "NFC read timeout")
                   EXCEPT !.fired = TRUE]
    /\ UNCHANGED <<users, nfc_devices, transactions, security_logs, now,
                   session, devices, last, calls, checked, console,
                   pins, provider>>

(* AuthProvider.  loadUser runs on mount, on every auth-state change and   *)
(* as refreshUser; a call is split at the two awaited requests of          *)
(* getCurrentUser and at the arrival of the second answer.                 *)

(* supabase.auth.getUser of the browser's session *)
authGetUser(sess) == IF sess = {} THEN "null" ELSE CHOOSE u \in sess : TRUE

(* setUser(currentUser) and, in finally, setLoading(false) *)
loadUserDone(prov, i, currentUser) ==
    [prov EXCEPT !.user = currentUser, !.loading = FALSE,
                 !.loads[i] = [@ EXCEPT !.pc = "done",
                                        !.result = currentUser]]

LoadStart(i) ==
    /\ provider.loads[i].pc = "idle"
    /\ provider' = [provider EXCEPT
                      !.started = @ + 1,
                      !.loads[i] = [pc |-> "auth", result |-> "null",
                                    order |-> provider.started + 1]]
    /\ UNCHANGED <<users, nfc_devices, transactions, security_logs, now,
                   session, devices, last, calls, checked, console,
                   pins, scan>>

(* The answer of auth.getUser: without a user getCurrentUser returns null  *)
(* and loadUser finishes; with one the users row is requested.             *)
LoadGetUser(i) ==
    /\ provider.loads[i].pc = "auth"
    /\ provider' =
          IF authGetUser(session) = "null"
          THEN loadUserDone(provider, i, "null")
          ELSE [provider EXCEPT
                  !.loads[i] = [@ EXCEPT !.pc = "row",
                                         !.result = authGetUser(session)]]
    /\ UNCHANGED <<users, nfc_devices, transactions, security_logs, now,
                   session, devices, last, calls, checked, console,
                   pins, scan>>

(* The store reads the users row of the authenticated user *)
LoadRow(i) ==
    /\ provider.loads[i].pc = "row"
    /\ provider' = [provider EXCEPT
                      !.loads[i] =
                          [@ EXCEPT !.pc = "set",
                                    !.result =
                                        IF @ \in DOMAIN users THEN @
                                        ELSE "null"]]
    /\ UNCHANGED <<users, nfc_devices, transactions, security_logs, now,
                   session, devices, last, calls, checked, console,
                   pins, scan>>

(* The answer arrives: getCurrentUser returns and loadUser finishes *)
LoadComplete(i) ==
    /\ provider.loads[i].pc = "set"
    /\ provider' = loadUserDone(provider, i, provider.loads[i].result)
    /\ UNCHANGED <<users, nfc_devices, transactions, security_logs, now,
                   session, devices, last, calls, checked, console,
                   pins, scan>>

(* generateTransactionSignature over the four fields of a transaction *)
SignTransaction(u, amount, merchantId, t) ==
    /\ checked' = [signature |-> generateTransactionSignature(
                                     u, amount, merchantId, toISOString(t)),
                   signed |-> <<u, amount, merchantId, t>>,
                   claimed |-> <<>>,
                   valid |-> FALSE]
    /\ UNCHANGED <<users, nfc_devices, transactions, security_logs, now,
                   session, devices, last, calls, console,
                   pins, scan, provider>>

(* verifyTransactionSignature of the last signature against claimed fields *)
VerifySignature(u, amount, merchantId, t) ==
    /\ checked.signed # <<>>
    /\ checked' = [checked EXCEPT
                     !.claimed = <<u, amount, merchantId, t>>,
                     !.valid = verifyTransactionSignature(
                                   checked.signature, u, amount, merchantId,
                                   toISOString(t))]
    /\ UNCHANGED <<users, nfc_devices, transactions, security_logs, now,
                   session, devices, last, calls, console,
                   pins, scan, provider>>

(* generateTransactionSignature called with the text of a timestamp *)
SignFields(u, amount, merchantId, timestamp) ==
    /\ checked' = [signature |-> generateTransactionSignature(
                                     u, amount, merchantId, timestamp),
                   signed |-> <<u, amount, merchantId, timestamp>>,
                   claimed |-> <<>>,
                   valid |-> FALSE]
    /\ UNCHANGED <<users, nfc_devices, transactions, security_logs, now,
                   session, devices, last, calls, console,
                   pins, scan, provider>>

(* verifyTransactionSignature called with the text of a timestamp *)
VerifyFields(u, amount, merchantId, timestamp) ==
    /\ checked.signed # <<>>
    /\ checked' = [checked EXCEPT
                     !.claimed = <<u, amount, merchantId, timestamp>>,
                     !.valid = verifyTransactionSignature(
                                   checked.signature, u, amount, merchantId,
                                   timestamp)]
    /\ UNCHANGED <<users, nfc_devices, transactions, security_logs, now,
                   session, devices, last, calls, console,
                   pins, scan, provider>>

(* The part of the state space a specification explores *)
Within(maxLogs, maxTxns, maxAttempts, maxTicks) ==
    /\ BagCardinality(security_logs') <= maxLogs
    /\ Len(transactions') <= maxTxns
    /\ \A u \in DOMAIN users' :
          users'[u].failed_auth_attempts <= maxAttempts
    /\ (now' - StartOfRun) \div MinuteMs \in Instants
    /\ (now' - StartOfRun) \div MinuteMs <= maxTicks
    /\ (now' - StartOfRun) % MinuteMs <= maxTxns * TapMs

(* Sign-in, PIN verification and the payment flow of both users *)
NextAuth ==
    /\ \/ \E u \in Users : SignIn(u)
       \/ \E u \in Users : SignInFail(u)
       \/ \E u \in Users : SignOut(u)
       \/ \E u \in Users, pin \in Pins : VerifyPin(u, pin)
       \/ \E u \in Users, pin \in Pins, tag \in {"tagA", NoTag} :
             HandlePayment(u, pin, tag, 400 * Unit)
       \/ \E u \in Users, d \in 1..Len(nfc_devices) : DeactivateDevice(u, d)
    /\ Within(AuthMaxLogs, AuthMaxTxns, AuthMaxAttempts, 0)

InitAuth ==
    /\ Init
    /\ DOMAIN users = {"u1"}
    /\ users["u1"].daily_limit = DefaultDailyLimit

SpecAuth == InitAuth /\ [][NextAuth]_vars

(* Payments of one user over time *)
NextPay ==
    /\ \/ \E m \in TickMinutes : Tick(m)
       \/ SignIn("u1")
       \/ HandlePayment("u1", SignupPin("u1"), "tagA", 400 * Unit)
       \/ \E d \in 1..Len(nfc_devices), amount \in PayAmounts,
             m \in Merchants : ProcessTransaction("u1", d, amount, m)
    /\ Within(PayMaxTxns + 2, PayMaxTxns, 0, PayMaxTicks)

InitPay ==
    /\ Init
    /\ DOMAIN users = {"u1"}
    /\ users["u1"].status = "active"
    /\ users["u1"].daily_limit \in PayLimits

SpecPay == InitPay /\ [][NextPay]_vars

(* Two processTransaction calls of one user in flight at once *)
NextRace ==
    /\ \/ SignIn("u1")
       \/ RegisterDevice("u1", "tagA")
       \/ Tick(1)
       \/ \E p \in Procs, d \in 1..Len(nfc_devices), amount \in PayAmounts :
             Begin(p, "u1", d, amount, "M1")
       \/ \E p \in Procs : ScoreRecent(p)
       \/ \E p \in Procs : ScoreDaily(p)
       \/ \E p \in Procs : AccountCheck(p)
       \/ \E p \in Procs : LimitRead(p)
       \/ \E p \in Procs : LimitTotal(p)
       \/ \E p \in Procs : Insert(p)
       \/ \E p \in Procs : LogProcessed(p)
       \/ \E p \in Procs : Touch(p)
    /\ Within(RaceMaxTxns + 2, RaceMaxTxns, 0, RaceMaxTicks)

InitRace ==
    /\ Init
    /\ DOMAIN users = {"u1"}
    /\ users["u1"].daily_limit = DefaultDailyLimit

SpecRace == InitRace /\ [][NextRace]_vars

(* Two users, their tags and their device lists *)
NextDev ==
    /\ \/ \E u \in Users : SignIn(u)
       \/ \E u \in Users : SignOut(u)
       \/ \E u \in Users : LoadDevices(u)
       \/ \E u \in Users, tag \in DeviceUids :
             HandlePayment(u, SignupPin(u), tag, 400 * Unit)
       \/ \E u \in Users, d \in 1..Len(nfc_devices) : DeactivateDevice(u, d)
       \/ \E u \in Users, d \in 1..Len(nfc_devices) :
             ProcessTransaction(u, d, 400 * Unit, "M1")
    /\ Within(DevMaxLogs, DevMaxTxns, 0, 0)

InitDev ==
    /\ Init
    /\ DOMAIN users = Users
    /\ users["u1"].status = "active"
    /\ users["u1"].daily_limit = DefaultDailyLimit

SpecDev == InitDev /\ [][NextDev]_vars

(* Requests of one user that differ by less than, or by exactly, 0.01 *)
NextDup ==
    /\ \/ SignIn("u1")
       \/ RegisterDevice("u1", "tagA")
       \/ Tick(1)
       \/ \E d \in 1..Len(nfc_devices), amount \in DupAmounts,
             m \in Merchants : ProcessTransaction("u1", d, amount, m)
    /\ Within(DupMaxTxns + 2, DupMaxTxns, 0, DupMaxTicks)

InitDup ==
    /\ Init
    /\ DOMAIN users = {"u1"}
    /\ users["u1"].status = "active"
    /\ users["u1"].daily_limit = DefaultDailyLimit

SpecDup == InitDup /\ [][NextDup]_vars

(* Signing and verifying, over fields that may contain the delimiter *)
NextSig ==
    \/ \E u \in SigUsers, amount \in SigAmounts, m \in SigMerchants,
          t \in SigInstants : SignTransaction(u, amount, m, t)
    \/ \E u \in SigUsers, amount \in SigAmounts, m \in SigMerchants,
          t \in SigInstants : VerifySignature(u, amount, m, t)

InitSig ==
    /\ Init
    /\ DOMAIN users = {"u1"}
    /\ users["u1"].status = "active"
    /\ users["u1"].daily_limit = DefaultDailyLimit

SpecSig == InitSig /\ [][NextSig]_vars

(* One processTransaction call at a time whose store calls may fail *)
NextFault ==
    /\ \/ SignIn("u1")
       \/ RegisterDevice("u1", "tagA")
       \/ LoadDevicesFails("u1")
       \/ \E d \in 1..Len(nfc_devices), amount \in PayAmounts :
             Begin("p1", "u1", d, amount, "M1")
       \/ ScoreRecent("p1")
       \/ ScoreRecentFails("p1")
       \/ ScoreDaily("p1")
       \/ ScoreDailyFails("p1")
       \/ AccountCheck("p1")
       \/ AccountCheckFails("p1")
       \/ LimitRead("p1")
       \/ LimitReadFails("p1")
       \/ LimitTotal("p1")
       \/ LimitTotalFails("p1")
       \/ Insert("p1")
       \/ InsertFails("p1")
       \/ LogProcessed("p1")
       \/ LogProcessedFails("p1")
       \/ Touch("p1")
       \/ TouchFails("p1")
    /\ Within(FaultMaxTxns + 2, FaultMaxTxns, 0, 0)

InitFault ==
    /\ Init
    /\ DOMAIN users = {"u1"}
    /\ users["u1"].daily_limit = DefaultDailyLimit

SpecFault == InitFault /\ [][NextFault]_vars

(* processTransaction for active, suspended, locked and missing users and  *)
(* for amounts that are zero or negative                                   *)
NextAcct ==
    /\ \/ \E u \in Users : SignIn(u)
       \/ VerifyPin("u1", "0000")
       \/ RegisterDevice("u1", "tagA")
       \/ \E u \in Users, d \in 1..Len(nfc_devices), amount \in AcctAmounts :
             ProcessTransaction(u, d, amount, "M1")
    /\ Within(AcctMaxLogs, AcctMaxTxns, AcctMaxAttempts, 0)

InitAcct ==
    /\ Init
    /\ users["u1"].daily_limit = DefaultDailyLimit

SpecAcct == InitAcct /\ [][NextAcct]_vars

(* Direct processTransaction calls of one user over time *)
NextScore ==
    /\ \/ \E m \in TickMinutes : Tick(m)
       \/ SignIn("u1")
       \/ RegisterDevice("u1", "tagA")
       \/ \E d \in 1..Len(nfc_devices), amount \in PayAmounts,
             m \in Merchants : ProcessTransaction("u1", d, amount, m)
    /\ Within(ScoreMaxTxns + 2, ScoreMaxTxns, 0, ScoreMaxTicks)

InitScore ==
    /\ Init
    /\ DOMAIN users = {"u1"}
    /\ users["u1"].daily_limit \in PayLimits

SpecScore == InitScore /\ [][NextScore]_vars

(* deactivateDevice called for own, foreign and non-existent devices *)
NextOwn ==
    /\ \/ \E u \in Users : SignIn(u)
       \/ \E u \in Users, tag \in DeviceUids : RegisterDevice(u, tag)
       \/ \E u \in Users, d \in DeviceIds : DeactivateDeviceCall(u, d)
    /\ Within(OwnMaxLogs, 0, 0, 0)

InitOwn ==
    /\ Init
    /\ DOMAIN users = Users
    /\ users["u1"].status = "active"
    /\ users["u1"].daily_limit = DefaultDailyLimit

SpecOwn == InitOwn /\ [][NextOwn]_vars

(* Two verifyPin calls of one user in flight at once, with sign-ins *)
NextPin ==
    /\ \/ SignIn("u1")
       \/ SignOut("u1")
       \/ \E p \in Procs, pin \in Pins : PinBegin(p, "u1", pin)
       \/ \E p \in Procs : PinDigest(p)
       \/ \E p \in Procs : PinIncrementRead(p)
       \/ \E p \in Procs : PinIncrementWrite(p)
       \/ \E p \in Procs : PinLogLocked(p)
       \/ \E p \in Procs : PinLogInvalid(p)
    /\ Within(PinMaxLogs, 0, PinMaxAttempts, 0)

InitPin ==
    /\ Init
    /\ DOMAIN users = {"u1"}
    /\ users["u1"].daily_limit = DefaultDailyLimit

SpecPin == InitPin /\ [][NextPin]_vars

(* One readNFCTag call; time passes and the timer fires when it is due *)
NextScan ==
    \/ ScanStart
    \/ ScanRefused
    \/ \E serialNumber \in DeviceUids : ScanReading(serialNumber)
    \/ ScanError
    \/ ScanSecond
    \/ ScanTimeout

InitScan ==
    /\ Init
    /\ DOMAIN users = {"u1"}
    /\ users["u1"].status = "active"
    /\ users["u1"].daily_limit = DefaultDailyLimit

SpecScan ==
    /\ InitScan
    /\ [][NextScan]_vars
    /\ WF_vars(ScanSecond)
    /\ WF_vars(ScanTimeout)

(* Signing and verifying, over merchant ids and timestamps that contain    *)
(* the delimiter                                                           *)
NextEnc ==
    \/ \E u \in Users, amount \in SigAmounts, m \in EncMerchants,
          t \in EncTimestamps : SignFields(u, amount, m, t)
    \/ \E u \in Users, amount \in SigAmounts, m \in EncMerchants,
          t \in EncTimestamps : VerifyFields(u, amount, m, t)

InitEnc ==
    /\ Init
    /\ DOMAIN users = {"u1"}
    /\ users["u1"].status = "active"
    /\ users["u1"].daily_limit = DefaultDailyLimit

SpecEnc == InitEnc /\ [][NextEnc]_vars

(* One browser: sign-ins and sign-outs of one user, and loadUser calls *)
NextLoad ==
    \/ SignIn("u1")
    \/ SignOut("u1")
    \/ \E i \in LoadIds : LoadStart(i)
    \/ \E i \in LoadIds : LoadGetUser(i)
    \/ \E i \in LoadIds : LoadRow(i)
    \/ \E i \in LoadIds : LoadComplete(i)

InitLoad ==
    /\ Init
    /\ DOMAIN users = {"u1"}
    /\ users["u1"].status = "active"
    /\ users["u1"].daily_limit = DefaultDailyLimit

SpecLoad ==
    InitLoad /\ [][NextLoad /\ Within(LoadMaxLogs, 0, 0, 0)]_vars

-----------------------------------------------------------------------------
(* Properties *)

Rows(u, ledger) == {i \in 1..Len(ledger) : ledger[i].user_id = u}

RECURSIVE SumOfRows(_, _)
SumOfRows(ledger, rows) ==
    IF rows = {} THEN 0
    ELSE LET i == CHOOSE i \in rows : TRUE
         IN ledger[i].amount + SumOfRows(ledger, rows \ {i})

(* Sum of the user's approved transactions created on the calendar day of t *)
ApprovedToday(u, ledger, t) ==
    SumOfRows(ledger, {i \in Rows(u, ledger) :
                          /\ ledger[i].status = "approved"
                          /\ ledger[i].created_at \div DayMs = t \div DayMs})

ExpectedRisk(ledger, u, amount, merchant, t) ==
    LET large == amount > 500 * Unit
        velocity == Cardinality({i \in Rows(u, ledger) :
                        t - ledger[i].created_at <= 5 * MinuteMs}) >= 3
        daily == ApprovedToday(u, ledger, t) + amount > 1000 * Unit
        duplicate == \E i \in Rows(u, ledger) :
                        /\ ledger[i].merchant_id = merchant
                        /\ ledger[i].amount - amount < 10
                        /\ amount - ledger[i].amount < 10
                        /\ t - ledger[i].created_at < 60000
        sum == (IF large THEN 30 ELSE 0) + (IF velocity THEN 40 ELSE 0)
               + (IF daily THEN 50 ELSE 0) + (IF duplicate THEN 70 ELSE 0)
    IN IF sum > 100 THEN 100 ELSE sum

LogCount(u, eventType, severity) ==
    CopiesIn([user_id |-> u, event_type |-> eventType,
              severity |-> severity], security_logs)

(* The step is a PIN verification of u that found a digest mismatch *)
PinMismatchStep(u) ==
    /\ u \in DOMAIN users
    /\ last'.user = u
    /\ ~last'.pinValid
    /\ \/ last'.op = "verifyPin"
       \/ last'.op = "handlePayment" /\ last'.error = "Invalid PIN"

(* The step is a PIN verification of a user without a users row *)
PinMissingStep(u) ==
    /\ u \notin DOMAIN users
    /\ last'.user = u
    /\ last'.op = "verifyPin"

(* C1: every score that calculateRiskScore returns is                      *)
(* min(100, 30*[amount > 500] + 40*[>= 3 transactions of the user in the   *)
(* trailing 5 minutes] + 50*[approved-today total + amount > 1000]         *)
(* + 70*[duplicate]), each rule evaluated on its own, and lies in 0..100.  *)
C1_RiskScoreIsCappedSum ==
    [][(last'.op \in {"processTransaction", "handlePayment"}
        /\ last'.risk # Unset)
       => /\ last'.risk = ExpectedRisk(transactions, last'.user,
                                       last'.amount, last'.merchant, now')
          /\ last'.risk \in 0..100]_vars

C1_Witness ==
    /\ last.op = "processTransaction"
    /\ last.risk = 90
    /\ last.txn # 0

(* C2: every persisted transaction is declined when its risk score is      *)
(* >= 80, pending when 50 <= risk < 80 and approved when risk < 50, and    *)
(* its decline reason is "High risk score" exactly when it is declined and *)
(* null otherwise.                                                         *)
C2_StatusFollowsRisk ==
    \A i \in 1..Len(transactions) :
        LET r == transactions[i] IN
        /\ r.risk_score >= 80 => r.status = "declined"
        /\ (r.risk_score >= 50 /\ r.risk_score < 80) => r.status = "pending"
        /\ r.risk_score < 50 => r.status = "approved"
        /\ r.status = "declined" <=> r.decline_reason = "High risk score"
        /\ r.status # "declined" => r.decline_reason = "null"

C2_Witness ==
    /\ \E i \in 1..Len(transactions) :
          transactions[i].risk_score = 80 /\ transactions[i].status = "declined"
    /\ \E i \in 1..Len(transactions) :
          transactions[i].risk_score = 70 /\ transactions[i].status = "pending"
    /\ \E i \in 1..Len(transactions) : transactions[i].status = "approved"

(* C3: a payment whose PIN does not match the stored digest inserts no     *)
(* transaction and registers no device.                                    *)
C3_PinFailurePersistsNothing ==
    [][\A u \in DOMAIN users, pin \in Pins, tag \in DeviceUids \cup {NoTag},
          amount \in Amounts :
          (HandlePayment(u, pin, tag, amount)
           /\ users[u].pin_hash # hashPin(pin))
          => (transactions' = transactions /\ nfc_devices' = nfc_devices)]_vars

C3_Witness ==
    /\ last.op = "handlePayment"
    /\ last.error = "Invalid PIN"
    /\ last.user \in session
    /\ users[last.user].status = "active"
    /\ transactions = <<>>

(* C4: of five consecutive failed PIN verifications that start at counter  *)
(* 0, each raises the counter by one, the first four append no             *)
(* account_locked event, and the fifth sets the status to locked and       *)
(* appends exactly one critical account_locked event.                      *)
C4_FifthFailureLocks ==
    [][\A u \in DOMAIN users :
          (PinMismatchStep(u) /\ users[u].failed_auth_attempts < 5)
          => /\ users'[u].failed_auth_attempts
                   = users[u].failed_auth_attempts + 1
             /\ users[u].failed_auth_attempts < 4
                   => (LogCount(u, "account_locked", "critical"))'
                         = LogCount(u, "account_locked", "critical")
             /\ users[u].failed_auth_attempts = 4
                   => /\ users'[u].status = "locked"
                      /\ (LogCount(u, "account_locked", "critical"))'
                            = LogCount(u, "account_locked", "critical") + 1]_vars

C4_Witness ==
    /\ "u1" \in DOMAIN users
    /\ users["u1"].failed_auth_attempts = 5
    /\ users["u1"].status = "locked"
    /\ LogCount("u1", "account_locked", "critical") = 1
    /\ LogCount("u1", "invalid_pin", "high") = 5
    /\ ~last.pinValid

(* C5: a payment attempt of a user whom five failed PIN verifications have *)
(* locked fails with the account-inactive error, whether the PIN is right  *)
(* or wrong, and persists no transaction.                                  *)
C5_LockedPaymentFailsAsInactive ==
    [][\A u \in DOMAIN users :
          (/\ users[u].status = "locked"
           /\ users[u].failed_auth_attempts >= 5
           /\ last'.op = "handlePayment"
           /\ last'.user = u
           /\ last'.error # "NFC read failed")
          => /\ last'.error = "Account is not active"
             /\ transactions' = transactions]_vars

(* C6: once a user's status is locked, no operation changes it.            *)
C6_LockedStaysLocked ==
    [][\A u \in DOMAIN users :
          users[u].status = "locked" => users'[u].status = "locked"]_vars

(* C7: a successful PIN verification resets the user's failed-             *)
(* authentication counter to 0.                                            *)
C7_SuccessResetsCounter ==
    [][\A u \in DOMAIN users :
          (/\ last'.op \in {"verifyPin", "handlePayment"}
           /\ last'.user = u
           /\ last'.pinValid)
          => users'[u].failed_auth_attempts = 0]_vars

(* C8 as stated: a PIN verification that finds a digest mismatch or no     *)
(* user record increments the user's counter by one and appends an         *)
(* invalid_pin event of severity medium.                                   *)
C8_FailureLogsMediumInvalidPin ==
    [][\A u \in Users :
          (PinMismatchStep(u) \/ PinMissingStep(u))
          => /\ (LogCount(u, "invalid_pin", "medium"))'
                   = LogCount(u, "invalid_pin", "medium") + 1
             /\ u \in DOMAIN users
                   => users'[u].failed_auth_attempts
                         = users[u].failed_auth_attempts + 1]_vars

(* C8 amended: a digest mismatch increments the user's counter by one and  *)
(* appends one invalid_pin event of severity high; a missing user record   *)
(* appends one pin_verification_failed event of severity medium and        *)
(* changes no user row; both fail and neither logs a medium invalid_pin.   *)
C8_FailureLogsByCase ==
    [][\A u \in Users :
          /\ PinMismatchStep(u)
                => /\ users'[u].failed_auth_attempts
                         = users[u].failed_auth_attempts + 1
                   /\ (LogCount(u, "invalid_pin", "high"))'
                         = LogCount(u, "invalid_pin", "high") + 1
                   /\ (LogCount(u, "invalid_pin", "medium"))' = 0
          /\ PinMissingStep(u)
                => /\ users' = users
                   /\ (LogCount(u, "pin_verification_failed", "medium"))'
                         = LogCount(u, "pin_verification_failed", "medium") + 1
                   /\ (LogCount(u, "invalid_pin", "high"))' = 0
                   /\ ~last'.pinValid]_vars

C8_Witness ==
    /\ last.op = "verifyPin"
    /\ last.user \notin DOMAIN users
    /\ LogCount(last.user, "pin_verification_failed", "medium") = 1
    /\ LogCount("u1", "invalid_pin", "high") = 1
    /\ users["u1"].failed_auth_attempts = 1

ConfiguredLimit(u) ==
    IF users[u].daily_limit = Unset THEN 1000 * Unit
    ELSE users[u].daily_limit

(* C9: the sum of a user's approved transactions of the current calendar   *)
(* day never exceeds the user's daily limit.                               *)
C9_ApprovedTodayWithinLimit ==
    \A u \in DOMAIN users :
        ApprovedToday(u, transactions, now) <= ConfiguredLimit(u)

(* C10: processTransaction of an active user with daily limit L and        *)
(* approved-today total T is rejected with the daily-limit error iff       *)
(* T + amount > L.                                                         *)
C10_RejectedIffOverLimit ==
    [][\A u \in DOMAIN users :
          (/\ last'.op = "processTransaction"
           /\ last'.user = u
           /\ users[u].status = "active")
          => (last'.error = "Daily transaction limit exceeded"
              <=> ApprovedToday(u, transactions, now) + last'.amount
                     > ConfiguredLimit(u))]_vars

(* The row that call p inserted *)
InsertedRow(p) == transactions[calls[p].txn]

(* Call p has inserted its row and has not returned yet *)
Inserted(p) == calls[p].pc \in {"log", "touch"}

(* C11: processTransaction calls of one user are not serialized: a call    *)
(* that passed its limit check inserts its row, with the status its own    *)
(* score gives, whatever the ledger has become since its reads; so two     *)
(* calls that read the same daily total are both persisted as approved     *)
(* and the approved-today sum exceeds the daily limit (the witness).       *)
C11_InsertIgnoresLaterTotal ==
    [][\A p \in Procs :
          (calls[p].pc = "insert" /\ calls'[p].pc # "insert")
          => /\ Len(transactions') = Len(transactions) + 1
             /\ LET r == transactions'[Len(transactions')] IN
                   /\ r.user_id = calls[p].request.userId
                   /\ r.amount = calls[p].request.amount
                   /\ r.risk_score = calls[p].riskScore
                   /\ r.risk_score < 50 => r.status = "approved"]_vars

C11_Witness ==
    /\ Inserted("p1") /\ Inserted("p2")
    /\ calls["p1"].request.userId = calls["p2"].request.userId
    /\ calls["p1"].dailyTotal = calls["p2"].dailyTotal
    /\ InsertedRow("p1").status = "approved"
    /\ InsertedRow("p2").status = "approved"
    /\ users["u1"].daily_limit = 1000 * Unit
    /\ calls["p1"].dailyTotal + calls["p1"].request.amount <= 1000 * Unit
    /\ calls["p2"].dailyTotal + calls["p2"].request.amount <= 1000 * Unit
    /\ ApprovedToday("u1", transactions, now) > 1000 * Unit

(* C12: two identical transactions of one user that are in flight at the   *)
(* same time and whose combined amount would exceed the daily limit are    *)
(* never both approved.                                                    *)
C12_NeverBothApproved ==
    \A p, q \in Procs :
        (/\ p # q
         /\ Inserted(p) /\ Inserted(q)
         /\ calls[p].request = calls[q].request
         /\ calls[p].dailyTotal = calls[q].dailyTotal
         /\ calls[p].dailyTotal + 2 * calls[p].request.amount
               > ConfiguredLimit(calls[p].request.userId))
        => ~(/\ InsertedRow(p).status = "approved"
             /\ InsertedRow(q).status = "approved")

(* The Device records that hold the identifier tag *)
DevicesOfTag(tag) ==
    {i \in 1..Len(nfc_devices) : nfc_devices[i].device_uid = tag}

(* The step is a payment of signed-in user u, with the right PIN, that     *)
(* read tag.                                                               *)
PaymentStep(u, tag) ==
    \E amount \in Amounts : HandlePayment(u, SignupPin(u), tag, amount)

(* C13: a payment with a device identifier whose Device record belongs to  *)
(* another user fails with the device-not-owned error and inserts no       *)
(* transaction, and every persisted transaction references a device of     *)
(* the transaction's own user.                                             *)
C13_ForeignDeviceRejected ==
    [][/\ \A u \in Users, tag \in DeviceUids :
             (/\ PaymentStep(u, tag)
              /\ \E i \in DevicesOfTag(tag) : nfc_devices[i].user_id # u)
             => /\ last'.error = "Device not owned"
                /\ transactions' = transactions
       /\ \A i \in 1..Len(transactions') :
             nfc_devices'[transactions'[i].device_id].user_id
                = transactions'[i].user_id]_vars

(* C14: a payment with a device that belongs to the paying user and is     *)
(* deactivated fails with the device-inactive error and inserts no         *)
(* transaction; no transaction is ever inserted for a device that is       *)
(* inactive at that moment.                                                *)
C14_InactiveDeviceRejected ==
    [][/\ \A u \in Users, tag \in DeviceUids :
             (/\ PaymentStep(u, tag)
              /\ \E i \in DevicesOfTag(tag) :
                    /\ nfc_devices[i].user_id = u
                    /\ ~nfc_devices[i].is_active)
             => /\ last'.error = "Device inactive"
                /\ transactions' = transactions
       /\ Len(transactions') > Len(transactions)
             => LET d == transactions'[Len(transactions')].device_id IN
                d \in 1..Len(nfc_devices) => nfc_devices[d].is_active]_vars

(* C15: a payment of a signed-in user with the right PIN and an identifier *)
(* that no Device record has creates exactly one Device record, owned by   *)
(* that user and active, and leaves the others as they are; a payment with *)
(* an identifier that has a Device record creates none.                    *)
C15_UnknownTagRegisteredOnce ==
    [][\A u \in Users, tag \in DeviceUids :
          PaymentStep(u, tag)
          => IF DevicesOfTag(tag) = {}
             THEN /\ Len(nfc_devices') = Len(nfc_devices) + 1
                  /\ LET d == nfc_devices'[Len(nfc_devices')] IN
                        /\ d.user_id = u
                        /\ d.device_uid = tag
                        /\ d.is_active
                  /\ \A i \in 1..Len(nfc_devices) :
                        nfc_devices'[i] = nfc_devices[i]
             ELSE Len(nfc_devices') = Len(nfc_devices)]_vars

C15_Witness ==
    /\ last.op = "handlePayment"
    /\ last.txn = 2
    /\ Len(nfc_devices) = 1
    /\ nfc_devices[1].user_id = last.user
    /\ nfc_devices[1].is_active
    /\ transactions[1].device_id = 1
    /\ transactions[2].device_id = 1

(* C16: a device identifier belongs to at most one Device record, and no   *)
(* step changes the identifier or the owner of an existing Device record   *)
(* or removes one.                                                         *)
C16_TagHasOneOwnerForever ==
    [][/\ \A i, j \in 1..Len(nfc_devices') :
             nfc_devices'[i].device_uid = nfc_devices'[j].device_uid => i = j
       /\ Len(nfc_devices') >= Len(nfc_devices)
       /\ \A i \in 1..Len(nfc_devices) :
             /\ nfc_devices'[i].user_id = nfc_devices[i].user_id
             /\ nfc_devices'[i].device_uid = nfc_devices[i].device_uid]_vars

C16_Witness ==
    /\ last.op = "handlePayment"
    /\ last.user = "u2"
    /\ last.error = "db error"
    /\ Len(nfc_devices) = 1
    /\ nfc_devices[1].user_id = "u1"
    /\ nfc_devices[1].device_uid = "tagA"
    /\ ~nfc_devices[1].is_active
    /\ devices["u2"] = <<>>

(* The points of the rules other than the duplicate rule *)
OtherPoints(ledger, u, amount, t) ==
    (IF amount > 500 * Unit THEN 30 ELSE 0)
    + (IF Cardinality({i \in Rows(u, ledger) :
                          t - ledger[i].created_at <= 5 * MinuteMs}) >= 3
       THEN 40 ELSE 0)
    + (IF ApprovedToday(u, ledger, t) + amount > 1000 * Unit THEN 50 ELSE 0)

(* The user's history holds a transaction, of any status, to the same      *)
(* merchant, less than 0.01 away in amount and less than 60 s old          *)
HasDuplicate(ledger, u, amount, merchant, t) ==
    \E i \in Rows(u, ledger) :
        /\ ledger[i].merchant_id = merchant
        /\ ledger[i].amount < amount + 10
        /\ amount < ledger[i].amount + 10
        /\ t < ledger[i].created_at + 60000

C18_RepeatedPaymentScoresHigher ==
    [][(/\ last.op = "handlePayment" /\ last.txn # 0
        /\ last'.op = "handlePayment" /\ last'.txn # 0
        /\ last'.user = last.user
        /\ last'.amount = last.amount
        /\ now' - now < 60000)
       => last'.risk > last.risk]_vars

(* The fields in which the claimed tuple differs from the signed tuple *)
PerturbedFields ==
    {i \in 1..4 : checked.claimed[i] # checked.signed[i]}

(* C19: verifying a signature against the four fields it was generated     *)
(* from succeeds, and against fields of which exactly one differs fails.   *)
C19_SignatureRoundTrip ==
    checked.claimed # <<>>
    => /\ PerturbedFields = {} => checked.valid
       /\ Cardinality(PerturbedFields) = 1 => ~checked.valid

C19_Witness ==
    /\ checked.claimed # <<>>
    /\ PerturbedFields = {3}
    /\ checked.signed[1] = "u1:7"
    /\ ~checked.valid

(* C20: the signature of every persisted transaction verifies against the  *)
(* record's own user id, amount, merchant id and created-at timestamp.     *)
C20_SignatureVerifiesAgainstRecord ==
    \A i \in 1..Len(transactions) :
        LET r == transactions[i] IN
        verifyTransactionSignature(r.signature, r.user_id, r.amount,
                                   r.merchant_id, toISOString(r.created_at))

(* Copies of an event in the audit log *)
AuditCount(u, eventType, severity) ==
    CopiesIn([user_id |-> u, event_type |-> eventType,
              severity |-> severity], AuditLog)

(* C21: the audit log holds exactly one transaction_processed event of the *)
(* user for every persisted transaction, of severity high when the risk    *)
(* score is > 70 and low otherwise, and none without a transaction.        *)
C21_OneEventPerTransaction ==
    \A u \in Users :
        /\ AuditCount(u, "transaction_processed", "high")
              = Cardinality({i \in Rows(u, transactions) :
                                transactions[i].risk_score > 70})
        /\ AuditCount(u, "transaction_processed", "low")
              = Cardinality({i \in Rows(u, transactions) :
                                transactions[i].risk_score <= 70})

(* Call p passes its audit step and the audit log has not grown *)
AuditAppendFailed(p) ==
    /\ calls[p].pc = "log"
    /\ calls'[p].pc # "log"
    /\ AuditLog' = AuditLog

(* C22: when the append of the audit event fails after the transaction was *)
(* persisted, the transaction stays in the ledger and the call goes on to  *)
(* return it, and the failure is reported on the error channel.            *)
C22_AuditFailureReported ==
    [][\A p \in Procs :
          AuditAppendFailed(p)
          => /\ transactions' = transactions
             /\ calls'[p].pc = "idle"
                   => (last'.txn = calls[p].txn /\ last'.error = "null")
             /\ console' # console]_vars

(* A store call of the authorization of p returns an error: the user      *)
(* read, the daily-total read, the recent-history read or the insert       *)
StoreCallFails(p) ==
    \/ ScoreRecentFails(p)
    \/ ScoreDailyFails(p)
    \/ AccountCheckFails(p)
    \/ LimitReadFails(p)
    \/ LimitTotalFails(p)
    \/ InsertFails(p)

(* C23: a failing store call of an authorization ends the request at once  *)
(* with an error, and a request that had a failing store call persists no  *)
(* transaction.                                                            *)
C23_StoreFailureAbandonsRequest ==
    [][\A p \in Procs :
          /\ StoreCallFails(p)
                => /\ calls'[p].pc = "idle"
                   /\ last'.error # "null"
                   /\ last'.txn = 0
          /\ calls[p].failed # {} => calls'[p].txn = 0]_vars

(* C24: processTransaction of a user who is missing or whose status is not *)
(* active fails with the account-inactive error, and a call that fails     *)
(* with the account-inactive or the daily-limit error leaves the ledger,   *)
(* the audit log and the devices as they were.                             *)
C24_InactiveAccountRejected ==
    [][\A u \in Users :
          (last'.op = "processTransaction" /\ last'.user = u)
          => /\ (u \notin DOMAIN users \/ users[u].status # "active")
                   => last'.error = "Account is not active"
             /\ last'.error \in {"Account is not active",
                                 "Daily transaction limit exceeded"}
                   => /\ transactions' = transactions
                      /\ security_logs' = security_logs
                      /\ nfc_devices' = nfc_devices]_vars

C24_Witness ==
    /\ last.op = "processTransaction"
    /\ last.user = "u1"
    /\ last.error = "Account is not active"
    /\ users["u1"].status = "locked"
    /\ Len(transactions) = 1
    /\ nfc_devices[1].last_used # Unset

(* C25: no step changes or removes a persisted transaction, and no step    *)
(* changes or removes a security event.                                    *)
C25_AppendOnly ==
    [][/\ Len(transactions') >= Len(transactions)
       /\ \A i \in 1..Len(transactions) : transactions'[i] = transactions[i]
       /\ security_logs \sqsubseteq security_logs']_vars

C25_Witness ==
    /\ last.op = "deactivateDevice"
    /\ Len(transactions) = 2
    /\ transactions[1].status = "approved"
    /\ BagCardinality(security_logs) >= 5

(* C26: every sign-in attempt with a wrong password for an existing        *)
(* account raises its failed-attempt counter by one, the fifth sets the    *)
(* status to locked and logs a critical event, and a locked account with   *)
(* counter 5 does not sign in.                                             *)
C26_WrongPasswordsLock ==
    [][\A u \in DOMAIN users :
          /\ (/\ last'.op = "signInFail"
              /\ last'.user = u
              /\ users[u].failed_auth_attempts < 5)
                => /\ users'[u].failed_auth_attempts
                         = users[u].failed_auth_attempts + 1
                   /\ users[u].failed_auth_attempts = 4
                         => /\ users'[u].status = "locked"
                            /\ (LogCount(u, "account_locked", "critical"))'
                                  > LogCount(u, "account_locked", "critical")
          /\ (/\ users[u].status = "locked"
              /\ users[u].failed_auth_attempts >= 5
              /\ last'.user = u)
                => last'.op # "signIn"]_vars

(* The step is one of the security-relevant operations: a sign-in, a       *)
(* failed sign-in, a sign-out, a failed PIN verification, a device         *)
(* registration or deactivation, a processed transaction or a lockout      *)
SecurityRelevantStep ==
    \/ last'.op \in {"signIn", "signInFail", "signOut", "deactivateDevice"}
    \/ last'.op \in {"verifyPin", "handlePayment"} /\ ~last'.pinValid
    \/ Len(nfc_devices') > Len(nfc_devices)
    \/ Len(transactions') > Len(transactions)
    \/ \E u \in DOMAIN users :
          users[u].status # "locked" /\ users'[u].status = "locked"

(* C27: every security-relevant operation leaves at least one more event   *)
(* in the audit log.                                                       *)
C27_EveryOperationAudited ==
    [][SecurityRelevantStep
       => (AuditLog \sqsubseteq AuditLog' /\ AuditLog' # AuditLog)]_vars

(* C28: every persisted transaction has amount > 0; processTransaction     *)
(* with amount 0 or a negative amount fails and inserts nothing; no step   *)
(* lowers a user's approved total of the day.                              *)
C28_AmountsArePositive ==
    [][/\ \A i \in 1..Len(transactions') : transactions'[i].amount > 0
       /\ (last'.op = "processTransaction" /\ last'.amount <= 0)
             => (last'.error # "null" /\ transactions' = transactions)
       /\ now' \div DayMs = now \div DayMs
             => \A u \in Users :
                   ApprovedToday(u, transactions', now')
                      >= ApprovedToday(u, transactions, now)]_vars

C28_Witness ==
    /\ last.op = "processTransaction"
    /\ last.amount = 0 - 50 * Unit
    /\ last.error = "db error"
    /\ users[last.user].status = "active"
    /\ Len(transactions) = 1
    /\ transactions[1].status = "approved"

(* C29: a request whose account-status check or daily-limit check fails    *)
(* has made none of the reads of risk scoring.                             *)
C29_FailedCheckSkipsScoring ==
    [][\A p \in Procs :
          (/\ calls[p].pc \in {"account", "total"}
           /\ calls'[p].pc = "idle"
           /\ last'.error \in {"Account is not active",
                               "Daily transaction limit exceeded"})
          => calls[p].riskScore = Unset]_vars

(* C30: processTransaction of a user whose configured daily limit is 0     *)
(* fails with the daily-limit error.                                       *)
C30_ZeroLimitRejectsAll ==
    [][\A u \in DOMAIN users :
          (/\ last'.op = "processTransaction"
           /\ last'.user = u
           /\ users[u].daily_limit = 0)
          => last'.error = "Daily transaction limit exceeded"]_vars

(* C31: processTransaction sets the last-used timestamp of the request's   *)
(* device exactly when it persists an approved transaction; a pending or   *)
(* declined transaction and every error leave all last-used timestamps as  *)
(* they were, and an approved one leaves those of the other devices.       *)
C31_LastUsedIffApproved ==
    [][last'.op = "processTransaction"
       => IF last'.txn # 0 /\ transactions'[last'.txn].status = "approved"
          THEN \A i \in 1..Len(nfc_devices) :
                  nfc_devices'[i] =
                     IF i = transactions'[last'.txn].device_id
                     THEN [nfc_devices[i] EXCEPT !.last_used = now']
                     ELSE nfc_devices[i]
          ELSE nfc_devices' = nfc_devices]_vars

C31_Witness ==
    /\ last.op = "processTransaction"
    /\ last.txn # 0
    /\ transactions[last.txn].status = "declined"
    /\ nfc_devices[1].last_used # Unset
    /\ nfc_devices[1].last_used < transactions[last.txn].created_at

(* The limit checkDailyLimit enforces for the user *)
EffectiveLimit(u) ==
    IF users[u].daily_limit = Unset \/ users[u].daily_limit = 0
    THEN 1000 * Unit
    ELSE users[u].daily_limit

(* C36: the transaction_processed event that processTransaction sends for  *)
(* a persisted transaction has severity high if and only if the            *)
(* transaction's status is declined, and every persisted risk score is one *)
(* of 0, 30, 40, 50, 70, 80, 90 and 100.                                   *)
C36_HighSeverityIffDeclined ==
    [][\A u \in Users :
          (last'.op = "processTransaction" /\ last'.user = u /\ last'.txn # 0)
          => LET r == transactions'[last'.txn]
                 declined == IF r.status = "declined" THEN 1 ELSE 0
             IN /\ (LogCount(u, "transaction_processed", "high"))'
                      = LogCount(u, "transaction_processed", "high")
                        + declined
                /\ (LogCount(u, "transaction_processed", "low"))'
                      = LogCount(u, "transaction_processed", "low")
                        + (1 - declined)
                /\ r.risk_score \in {0, 30, 40, 50, 70, 80, 90, 100}]_vars

C36_Witness ==
    /\ last.op = "processTransaction"
    /\ last.txn # 0
    /\ transactions[last.txn].risk_score = 80
    /\ transactions[last.txn].status = "declined"
    /\ LogCount("u1", "transaction_processed", "high") = 1
    /\ LogCount("u1", "transaction_processed", "low") = 2

(* C37: every persisted transaction of a user whose effective daily limit  *)
(* is at most 1000 was scored without the daily-accumulation rule: the     *)
(* approved total of its day before it, plus its amount, is at most 1000,  *)
(* and its risk score is one of 0, 30, 40, 70 and 100.                     *)
C37_NoDailyRuleUnderLimit ==
    [][\A u \in DOMAIN users :
          (/\ last'.op = "processTransaction"
           /\ last'.user = u
           /\ last'.txn # 0
           /\ EffectiveLimit(u) <= 1000 * Unit)
          => /\ ApprovedToday(u, transactions, now) + last'.amount
                   <= 1000 * Unit
             /\ last'.risk \in {0, 30, 40, 70, 100}]_vars

C37_Witness ==
    /\ last.op = "processTransaction"
    /\ last.error = "Daily transaction limit exceeded"
    /\ last.risk = 100
    /\ users["u1"].daily_limit = 0
    /\ \E i \in 1..Len(transactions) : transactions[i].risk_score = 70
    /\ \A i \in 1..Len(transactions) :
          transactions[i].risk_score \in {0, 30, 40, 70, 100}

(* C33: a failed PIN verification leaves the user's status as it is or     *)
(* changes it from active to locked; it never changes the status of a      *)
(* suspended user.                                                         *)
C33_WrongPinKeepsSuspended ==
    [][\A u \in DOMAIN users :
          PinMismatchStep(u)
          => \/ users'[u].status = users[u].status
             \/ users[u].status = "active" /\ users'[u].status = "locked"]_vars

(* C35: deactivateDevice for a device that the caller does not own or that *)
(* does not exist changes no Device record and appends no                  *)
(* nfc_device_deactivated event, and such an event is appended only by a   *)
(* call that set a device inactive.                                        *)
C35_DeactivationLoggedOnlyWhenDone ==
    [][\A u \in Users, d \in DeviceIds :
          DeactivateDeviceCall(u, d)
          => LET appended ==
                    (LogCount(u, "nfc_device_deactivated", "medium"))'
                       - LogCount(u, "nfc_device_deactivated", "medium")
             IN /\ (d \notin 1..Len(nfc_devices) \/ nfc_devices[d].user_id # u)
                      => (nfc_devices' = nfc_devices /\ appended = 0)
                /\ appended > 0
                      => \E i \in 1..Len(nfc_devices) :
                            /\ nfc_devices[i].is_active
                            /\ ~nfc_devices'[i].is_active]_vars

(* C32: in every state, a user whose failed-authentication counter is >= 5 *)
(* has status locked.                                                      *)
C32_FiveFailuresMeanLocked ==
    \A u \in DOMAIN users :
        users[u].failed_auth_attempts >= 5 => users[u].status = "locked"

C32_Witness ==
    /\ users["u1"].failed_auth_attempts = 5
    /\ users["u1"].status = "locked"
    /\ pins["p1"].pc = "write"
    /\ pins["p1"].attempts < 5
    /\ LogCount("u1", "user_signin", "low") > 0

(* C34: when no PIN verification is in flight and no sign-in has reset the *)
(* counter, the counter of a user equals the number of failed              *)
(* verifications of that user.                                             *)
C34_FailuresCountedWithoutLoss ==
    \A u \in DOMAIN users :
        (/\ \A p \in Procs : pins[p].pc = "idle"
         /\ LogCount(u, "user_signin", "low") = 0)
        => users[u].failed_auth_attempts = LogCount(u, "invalid_pin", "high")

(* C38: once scanning has started, the promise of readNFCTag is eventually *)
(* settled; it is settled once, by the first of a reading event (resolved  *)
(* with its serial number), an error event (rejected) and the timer at 10  *)
(* seconds (rejected), and nothing changes it afterwards.                  *)
C38_ScanSettlesOnce ==
    /\ (scan.pc = "listening") ~> (scan.state # "pending")
    /\ [][/\ scan.state # "pending"
             => (scan'.state = scan.state /\ scan'.value = scan.value)
          /\ scan'.settled <= 1
          /\ scan.pc = "listening" /\ scan.state = "pending"
             => /\ \A serialNumber \in DeviceUids :
                      ScanReading(serialNumber)
                      => (scan'.state = "fulfilled"
                          /\ scan'.value = serialNumber)
                /\ ScanError
                      => (scan'.state = "rejected"
                          /\ scan'.value = "Failed to read NFC tag")
                /\ ScanTimeout
                      => (scan'.state = "rejected"
                          /\ scan'.value = "NFC read timeout"
                          /\ scan.elapsed = 10)
                /\ ScanSecond => scan'.state = "pending"]_vars

C38_Witness ==
    /\ scan.pc = "listening"
    /\ scan.state = "fulfilled"
    /\ scan.value = "tagA"
    /\ scan.settled = 1
    /\ scan.events = 3
    /\ scan.fired

(* C39: two different (userId, amount, merchantId, timestamp) tuples never *)
(* give generateTransactionSignature the same ':'-joined text to digest,   *)
(* also when the merchant id or the timestamp contains ':'.                *)
C39_JoinedTextIsInjective ==
    (checked.claimed # <<>> /\ checked.claimed # checked.signed)
    => generateTransactionSignature(
           checked.claimed[1], checked.claimed[2], checked.claimed[3],
           checked.claimed[4])[2] # checked.signature[2]

(* C40: when loadUser calls overlapped and all of them have finished, the  *)
(* provider's user is the result of the call that started last, and        *)
(* loading is false.                                                       *)
C40_LatestLoadWins ==
    (/\ provider.started > 0
     /\ \A i \in LoadIds : provider.loads[i].pc \in {"idle", "done"})
    => /\ ~provider.loading
       /\ \A i \in LoadIds :
             provider.loads[i].order = provider.started
             => provider.user = provider.loads[i].result

====
